---- MODULE Spec2Model ----
(***************************************************************************)
(* Credential and token lifecycle of the Django auth-module example:      *)
(* apps/users/services.py (AuthService), apps/users/models.py (the token  *)
(* tables) and apps/users/views.py (the endpoints that call the service). *)
(*                                                                         *)
(* Every ORM call is one database statement in autocommit mode (the code  *)
(* opens no transaction.atomic block and takes no row lock), so a request *)
(* is a sequence of steps, one per statement, and the steps of concurrent *)
(* requests interleave.  The clock is read by each timezone.now() call on *)
(* its own.  Time is counted in hours.                                     *)
(***************************************************************************)
EXTENDS Integers, FiniteSets, Sequences, TLC

\* ------------------------------------------------------------------ bounds
MaxTokens == 2      \* token rows created in one behaviour
MaxTicks == 1       \* clock advances in one behaviour
MaxSessions == 2    \* refresh tokens created in one behaviour
MaxAdmitted == 4    \* requests of one view and address let through in one period

\* ------------------------------------------------------- program constants
PASSWORD_RESET_EXPIRY_HOURS == 24
EMAIL_VERIFICATION_EXPIRY_HOURS == 72
\* the lifetime of a refresh token (refreshTTL): simplejwt's default, one day
REFRESH_TOKEN_LIFETIME_HOURS == 24
\* rate = '5/hour' and rate = '3/hour': requests per period, and the period
REGISTRATION_RATE == 5
PASSWORD_RESET_RATE == 3
THROTTLE_PERIOD_HOURS == 1

NULL == -1
\* the empty string, where a request carries it for a refresh token
EMPTY == 0

\* two request workers: the races of the token lifecycle are between two
\* requests
Procs == {1, 2}
\* the rows of the users table: two active users and an inactive one
UserIds == {1, 2, 3}
InactiveUsers == {3}
\* an email address of no user
UnknownMailbox == 4
Kinds == {"PasswordReset", "EmailVerification"}
\* secrets: those generate_token may return, and one it never returns
Secrets == 1..(MaxTokens + 1)
\* the new password a request may carry; every user starts with password 0
Passwords == {1}
\* the clock advances by one of the two expiry periods at a time
TickSteps == {PASSWORD_RESET_EXPIRY_HOURS, EMAIL_VERIFICATION_EXPIRY_HOURS}

\* client addresses: REMOTE_ADDR and the entries of X-Forwarded-For
Addresses == {1, 2}
\* the X-Forwarded-For header of a request: absent, or a list of addresses
ForwardedFor == {<<>>, <<2, 1>>}
\* the passwords a login may carry: 0 is what every user starts with
LoginPasswords == {0, 1}
\* a password that validate_password refuses
WeakPasswords == {2}
\* the password and password_confirm a registration may carry
RegisterPasswords == {0} \cup WeakPasswords
\* the scope of the throttle classes: AnonRateThrottle's, which neither
\* RegistrationThrottle nor PasswordResetThrottle overrides
Scopes == {"anon"}
\* cache keys of the throttles: 'throttle_%(scope)s_%(ident)s'
CacheKeys == Scopes \X Addresses
\* the views with throttle_classes
ThrottledViews == {"RegisterView", "PasswordResetRequestView"}

\* An email address as typed: a mailbox name and whether it is typed with
\* upper-case letters.  Mailbox u belongs to user u.
EmailInputs == [name : UserIds \cup {UnknownMailbox}, upper : BOOLEAN]

\* str.lower() on an email address
Lower(e) == [e EXCEPT !.upper = FALSE]

VARIABLES
    now,        \* the clock, timezone.now()
    ticks,      \* how often the clock has advanced
    users,      \* users table: id -> row
    tokens,     \* password_reset_tokens and email_verification_tokens rows
    nextSecret, \* secrets handed out by generate_token so far, plus one
    pc,         \* where each request worker is
    loc,        \* the local variables of each request worker
    returned,   \* the response the last step returned, NoResp if it returned none
    sweep,      \* the cleanup task: its position and its local now
    consumed,   \* secret -> how many consumes of it have returned True
    unswept,    \* the token tables as they are when no cleanup task ever runs
    sessions,   \* token_blacklist_outstandingtoken rows: the refresh tokens issued
    blacklist,  \* token_blacklist_blacklistedtoken rows: the jti of the revoked ones
    nextJti,    \* refresh tokens signed so far, plus one
    history,    \* the throttle cache: cache key -> times of the requests let through
    admitted    \* <<view, address>> -> times at which allow_request returned True

\* the tables and the cache of the Session Manager and the Rate Limiter
authVars == <<sessions, blacklist, nextJti, history, admitted>>

vars == <<now, ticks, users, tokens, nextSecret, pc, loc, returned, sweep, consumed,
          unswept, sessions, blacklist, nextJti, history, admitted>>

\* ------------------------------------------------------------- responses
\* a response: status and body as the client sees them; op, token and why
\* record which request it answers and which case of it happened, mailed
\* the secret the request handed to send_mail and send_mail delivered,
\* access the user the access token in the body is signed for, req the
\* request a login response answers
Response(status, body, op, token, why) ==
    [status |-> status, body |-> body, op |-> op, token |-> token, why |-> why,
     mailed |-> NULL, access |-> NULL, req |-> NULL]

\* the Notification Dispatcher has delivered secret s during the request
Mailed(r, s) == [r EXCEPT !.mailed = s]

\* the body carries an access token signed for user u
WithAccess(r, u) == [r EXCEPT !.access = u]

\* the response answers request q
Answers(r, q) == [r EXCEPT !.req = q]

\* what the client sees of a response
Seen(r) == <<r.status, r.body>>

NoResp == Response(0, "none", "none", NULL, "none")

\* ------------------------------------------------------------ token rows
\* PasswordResetToken / EmailVerificationToken: the primary key is created
\* together with the unique token string, so the secret stands for both.
TTL(kind) ==
    IF kind = "PasswordReset" THEN PASSWORD_RESET_EXPIRY_HOURS
    ELSE EMAIL_VERIFICATION_EXPIRY_HOURS

\* is_valid(): used_at is None and expires_at > timezone.now()
is_valid(row, t) == row.used_at = NULL /\ row.expires_at > t

\* get() without the used_at__isnull=True condition
LookupLive_IgnoreUsed(kind, s, t) ==
    {r \in tokens : r.kind = kind /\ r.token = s /\ r.expires_at > t}

\* one token table for both kinds, and a get() that does not ask for the kind
LookupLive_AnyKind(kind, s, t) ==
    {r \in tokens : r.token = s /\ is_valid(r, t)}

\* Model.objects.get(token=s, used_at__isnull=True, expires_at__gt=t)
LookupLive(kind, s, t) ==
    {r \in tokens : r.kind = kind /\ r.token = s /\ is_valid(r, t)}

\* why a lookup of secret s finds nothing (kept with the response only)
FailureReason(kind, s, t) ==
    IF \E r \in tokens : r.kind = kind /\ r.token = s /\ r.used_at # NULL THEN "used"
    ELSE IF \E r \in tokens : r.kind = kind /\ r.token = s THEN "expired"
    ELSE IF \E r \in tokens : r.token = s THEN "wrong_kind"
    ELSE "absent"

NoLoc == [user |-> NULL, token |-> NULL, created_at |-> NULL,
          expires_at |-> NULL, new_password |-> NULL, req |-> NULL]

Init ==
    /\ now = 0
    /\ ticks = 0
    /\ users = [u \in UserIds |->
                    [email |-> [name |-> u, upper |-> FALSE],
                     is_active |-> u \notin InactiveUsers,
                     email_verified |-> FALSE,
                     password |-> 0,
                     last_login_ip |-> NULL]]
    /\ tokens = {}
    /\ unswept = {}
    /\ nextSecret = 1
    /\ pc = [p \in Procs |-> "idle"]
    /\ loc = [p \in Procs |-> NoLoc]
    /\ returned = NoResp
    /\ sweep = [pc |-> "idle", now |-> NULL]
    /\ consumed = [s \in Secrets |-> 0]
    /\ sessions = {}
    /\ blacklist = {}
    /\ nextJti = 1
    /\ history = [k \in CacheKeys |-> <<>>]
    /\ admitted = [k \in ThrottledViews \X Addresses |-> <<>>]

\* the response of the last step has gone out; the next step of any
\* request or task is taken after that
Delivered == returned = NoResp

\* worker p is at label
At(p, label) == Delivered /\ pc[p] = label

\* the response of the last step goes out: nothing else changes
Deliver ==
    /\ returned # NoResp
    /\ returned' = NoResp
    /\ UNCHANGED <<now, ticks, users, tokens, unswept, nextSecret, pc, loc, sweep, consumed>>
    /\ UNCHANGED authVars

\* the clock advances
Tick ==
    /\ Delivered
    /\ ticks < MaxTicks
    /\ \E d \in TickSteps : now' = now + d
    /\ ticks' = ticks + 1
    /\ returned' = NoResp
    /\ UNCHANGED <<users, tokens, unswept, nextSecret, pc, loc, sweep, consumed>>
    /\ UNCHANGED authVars

\* the view returns response r: the worker is free for the next request
Finish(p, r) ==
    /\ pc' = [pc EXCEPT ![p] = "idle"]
    /\ loc' = [loc EXCEPT ![p] = NoLoc]
    /\ returned' = r

\* ---------------------------------------------------------- Token Issuer
\* the positions of a registration
RegisterPcs == {"register_save", "register_invalidate", "register_token", "register_session"}

\* generate_token may still be called: at most MaxTokens tokens are created
IssueBudget ==
    nextSecret + Cardinality({q \in Procs :
        pc[q] \in {"reset_invalidate", "verify_invalidate",
                   "register_save", "register_invalidate"}}) <= MaxTokens

\* the UPDATE with used_at__isnull=False: it misses the unused tokens
InvalidatePrior_UsedOnly(kind, user, t) ==
    {IF r.kind = kind /\ r.user = user /\ r.used_at # NULL
        THEN [r EXCEPT !.used_at = t] ELSE r : r \in tokens}

\* the UPDATE on both token tables
InvalidatePrior_EveryKind(kind, user, t) ==
    {IF r.user = user /\ r.used_at = NULL
        THEN [r EXCEPT !.used_at = t] ELSE r : r \in tokens}

\* the UPDATE without user=user in the filter
InvalidatePrior_EveryUser(kind, user, t) ==
    {IF r.kind = kind /\ r.used_at = NULL
        THEN [r EXCEPT !.used_at = t] ELSE r : r \in tokens}

\* Model.objects.filter(user=user, used_at__isnull=True).update(used_at=t):
\* one UPDATE statement over one token table
InvalidatePrior(kind, user, t) ==
    {IF r.kind = kind /\ r.user = user /\ r.used_at = NULL
        THEN [r EXCEPT !.used_at = t] ELSE r : r \in tokens}

\* the same UPDATE on the tables that no cleanup task has touched: unswept
\* is what the token tables hold when cleanup_expired_tokens never runs
Unswept_InvalidatePrior(kind, user, t) ==
    {IF r.kind = kind /\ r.user = user /\ r.used_at = NULL
        THEN [r EXCEPT !.used_at = t] ELSE r : r \in unswept}

\* timezone.now() + timedelta(hours=...)
ExpiresAt(kind, t) == t + TTL(kind)

\* a used_at column declared like created_at (auto_now_add) instead of null
CreateToken_Used(kind, user, token, expires_at, t) ==
    [kind |-> kind, user |-> user, token |-> token, created_at |-> t,
     expires_at |-> expires_at, used_at |-> t]

\* Model.objects.create(user=user, token=token, expires_at=expires_at):
\* created_at is auto_now_add, the clock at the INSERT; used_at is null
CreateToken(kind, user, token, expires_at, t) ==
    [kind |-> kind, user |-> user, token |-> token, created_at |-> t,
     expires_at |-> expires_at, used_at |-> NULL]

\* a request that runs in one transaction (ATOMIC_REQUESTS): the exception
\* of send_mail undoes the INSERT
AfterSendMail_RolledBack(raised, before, after) == IF raised THEN before ELSE after

\* the token table when send_mail has returned or raised: each statement
\* was committed on its own, so the row of create() is there either way
AfterSendMail(raised, before, after) == after

\* User.objects.get(email=email.lower(), is_active=True)
ActiveUserByEmail(email) ==
    {u \in UserIds : users[u].email = Lower(email) /\ users[u].is_active}

\* which case of the user lookup an email is (kept with the response only)
EmailCase(email) ==
    IF ActiveUserByEmail(email) # {} THEN "active"
    ELSE IF \E u \in UserIds : users[u].email = Lower(email) THEN "inactive"
    ELSE "unknown"

\* PasswordResetRequestView.post: the response after
\* send_password_reset_email has returned (raised = FALSE) or send_mail has
\* raised out of it (fail_silently=False): the exception leaves the view and
\* Django answers 500
PasswordResetRequestView_response(email, raised) ==
    IF raised
    THEN Response(500, "Server Error (500)", "reset_request", NULL, EmailCase(email))
    ELSE Response(200, "If an account exists, a password reset email has been sent.",
                  "reset_request", NULL, EmailCase(email))

\* PasswordResetRequestView.post up to the user lookup of
\* send_password_reset_email: for an unknown or inactive user the service
\* returns at once.  The view runs when check_throttles has let the request
\* through (the worker is at "PasswordResetRequestView"); where the Rate
\* Limiter is left out, the request starts here
PasswordResetRequestView_post(p, email) ==
    /\ Delivered
    /\ pc[p] \in {"idle", "PasswordResetRequestView"}
    /\ IF ActiveUserByEmail(email) = {}
          THEN /\ Finish(p, PasswordResetRequestView_response(email, FALSE))
          ELSE /\ IssueBudget
               /\ pc' = [pc EXCEPT ![p] = "reset_invalidate"]
               /\ loc' = [loc EXCEPT ![p] =
                     [NoLoc EXCEPT !.user = CHOOSE u \in ActiveUserByEmail(email) : TRUE]]
               /\ returned' = NoResp
    /\ UNCHANGED <<now, ticks, users, tokens, unswept, nextSecret, sweep, consumed>>
    /\ UNCHANGED authVars

\* send_password_reset_email: the UPDATE that invalidates the previous
\* tokens, then generate_token() and expires_at (local computation)
send_password_reset_email_invalidate(p) ==
    /\ At(p, "reset_invalidate")
    /\ tokens' = InvalidatePrior("PasswordReset", loc[p].user, now)
    /\ unswept' = Unswept_InvalidatePrior("PasswordReset", loc[p].user, now)
    /\ loc' = [loc EXCEPT ![p].token = nextSecret,
                          ![p].expires_at = ExpiresAt("PasswordReset", now)]
    /\ nextSecret' = nextSecret + 1
    /\ pc' = [pc EXCEPT ![p] = "reset_create"]
    /\ returned' = NoResp
    /\ UNCHANGED <<now, ticks, users, sweep, consumed>>
    /\ UNCHANGED authVars

\* send_password_reset_email: PasswordResetToken.objects.create, then
\* send_mail, which delivers or raises, then the view's response
send_password_reset_email_create(p) ==
    /\ At(p, "reset_create")
    /\ \E raised \in BOOLEAN :
          /\ tokens' = AfterSendMail(raised, tokens, tokens \cup
                {CreateToken("PasswordReset", loc[p].user, loc[p].token, loc[p].expires_at, now)})
          /\ unswept' = AfterSendMail(raised, unswept, unswept \cup
                {CreateToken("PasswordReset", loc[p].user, loc[p].token, loc[p].expires_at, now)})
          /\ Finish(p, IF raised
                       THEN PasswordResetRequestView_response(users[loc[p].user].email, TRUE)
                       ELSE Mailed(PasswordResetRequestView_response(users[loc[p].user].email, FALSE),
                                   loc[p].token))
    /\ UNCHANGED <<now, ticks, users, nextSecret, sweep, consumed>>
    /\ UNCHANGED authVars

\* ResendVerificationView.post: the response after send_verification_email
\* has returned or send_mail has raised out of it
ResendVerificationView_response(raised) ==
    IF raised
    THEN Response(500, "Server Error (500)", "resend", NULL, "unverified")
    ELSE Response(200, "Verification email sent.", "resend", NULL, "unverified")

\* ResendVerificationView.post: request.user is an authenticated, hence
\* active, user; an already verified one is refused
ResendVerificationView_post(p, u) ==
    /\ At(p, "idle")
    /\ users[u].is_active
    /\ IF users[u].email_verified
          THEN /\ Finish(p, Answers(Response(400, "Email already verified.", "resend",
                                             NULL, "verified"), u))
          ELSE /\ IssueBudget
               /\ pc' = [pc EXCEPT ![p] = "verify_invalidate"]
               /\ loc' = [loc EXCEPT ![p] = [NoLoc EXCEPT !.user = u]]
               /\ returned' = NoResp
    /\ UNCHANGED <<now, ticks, users, tokens, unswept, nextSecret, sweep, consumed>>
    /\ UNCHANGED authVars

\* send_verification_email: the UPDATE that invalidates the previous
\* tokens, then generate_token() and expires_at (local computation)
send_verification_email_invalidate(p) ==
    /\ At(p, "verify_invalidate")
    /\ tokens' = InvalidatePrior("EmailVerification", loc[p].user, now)
    /\ unswept' = Unswept_InvalidatePrior("EmailVerification", loc[p].user, now)
    /\ loc' = [loc EXCEPT ![p].token = nextSecret,
                          ![p].expires_at = ExpiresAt("EmailVerification", now)]
    /\ nextSecret' = nextSecret + 1
    /\ pc' = [pc EXCEPT ![p] = "verify_create"]
    /\ returned' = NoResp
    /\ UNCHANGED <<now, ticks, users, sweep, consumed>>
    /\ UNCHANGED authVars

\* send_verification_email: EmailVerificationToken.objects.create, then
\* send_mail, which delivers or raises, then the view's response
send_verification_email_create(p) ==
    /\ At(p, "verify_create")
    /\ \E raised \in BOOLEAN :
          /\ tokens' = AfterSendMail(raised, tokens, tokens \cup
                {CreateToken("EmailVerification", loc[p].user, loc[p].token,
                             loc[p].expires_at, now)})
          /\ unswept' = AfterSendMail(raised, unswept, unswept \cup
                {CreateToken("EmailVerification", loc[p].user, loc[p].token,
                             loc[p].expires_at, now)})
          /\ Finish(p, IF raised
                       THEN ResendVerificationView_response(TRUE)
                       ELSE Mailed(ResendVerificationView_response(FALSE), loc[p].token))
    /\ UNCHANGED <<now, ticks, users, nextSecret, sweep, consumed>>
    /\ UNCHANGED authVars

\* -------------------------------------------------------- Token Validator
\* save() of the local copy without used_at = timezone.now()
UsedRow_NotMarked(kind, l, t) ==
    [kind |-> kind, user |-> l.user, token |-> l.token, created_at |-> l.created_at,
     expires_at |-> l.expires_at, used_at |-> NULL]

\* the local copy of the row that get() returned, as save() writes it back
\* after used_at = timezone.now()
UsedRow(kind, l, t) ==
    [kind |-> kind, user |-> l.user, token |-> l.token, created_at |-> l.created_at,
     expires_at |-> l.expires_at, used_at |-> t]

\* Model.save() of an instance loaded from the table: UPDATE of every
\* column WHERE pk; when no row has that pk any more, INSERT
SaveRow(row) ==
    {r \in tokens : ~(r.kind = row.kind /\ r.token = row.token)} \cup {row}

\* save() and get() on the tables that no cleanup task has touched
Unswept_SaveRow(row) ==
    {r \in unswept : ~(r.kind = row.kind /\ r.token = row.token)} \cup {row}

Unswept_LookupLive(kind, s, t) ==
    {r \in unswept : r.kind = kind /\ r.token = s /\ is_valid(r, t)}

\* the local variables after get() returned row r
Loaded(r, pw) ==
    [user |-> r.user, token |-> r.token, created_at |-> r.created_at,
     expires_at |-> r.expires_at, new_password |-> pw, req |-> NULL]

\* a view that tells a used token from the other failures
PasswordResetConfirmView_response_Reveal(token, success, why) ==
    IF success
    THEN Response(200, "Password reset successfully.", "reset_confirm", token, why)
    ELSE IF why = "used"
    THEN Response(400, "Token already used.", "reset_confirm", token, why)
    ELSE Response(400, "Invalid or expired token.", "reset_confirm", token, why)

\* PasswordResetConfirmView.post: the response for the token sent, given
\* what AuthService.reset_password returned
PasswordResetConfirmView_response(token, success, why) ==
    IF success
    THEN Response(200, "Password reset successfully.", "reset_confirm", token, why)
    ELSE Response(400, "Invalid or expired token.", "reset_confirm", token, why)

\* PasswordResetConfirmView.post with a valid body (the two passwords
\* match): reset_password looks the token up with get()
PasswordResetConfirmView_post(p, s, pw) ==
    /\ At(p, "idle")
    /\ IF LookupLive("PasswordReset", s, now) = {}
          THEN Finish(p, PasswordResetConfirmView_response(s, FALSE,
                            FailureReason("PasswordReset", s, now)))
          ELSE /\ pc' = [pc EXCEPT ![p] = "reset_save_token"]
               /\ loc' = [loc EXCEPT ![p] =
                     Loaded(CHOOSE r \in LookupLive("PasswordReset", s, now) : TRUE, pw)]
               /\ returned' = NoResp
    /\ UNCHANGED <<now, ticks, users, tokens, unswept, nextSecret, sweep, consumed>>
    /\ UNCHANGED authVars

\* reset_password: reset_token.used_at = timezone.now(); reset_token.save()
reset_password_save_token(p) ==
    /\ At(p, "reset_save_token")
    /\ tokens' = SaveRow(UsedRow("PasswordReset", loc[p], now))
    /\ unswept' = Unswept_SaveRow(UsedRow("PasswordReset", loc[p], now))
    /\ pc' = [pc EXCEPT ![p] = "reset_save_user"]
    /\ returned' = NoResp
    /\ UNCHANGED <<now, ticks, users, nextSecret, loc, sweep, consumed>>
    /\ UNCHANGED authVars

\* set_password without the user.save()
SetPassword_NotSaved(u, pw) == users

\* a password change that asks for the email to be verified again
SetPassword_Unverify(u, pw) ==
    [users EXCEPT ![u].password = pw, ![u].email_verified = FALSE]

\* user.set_password(new_password);
\* user.save(update_fields=['password', 'updated_at'])
SetPassword(u, pw) == [users EXCEPT ![u].password = pw]

\* reset_password: the password is saved and True is returned
reset_password_save_user(p) ==
    /\ At(p, "reset_save_user")
    /\ users' = SetPassword(loc[p].user, loc[p].new_password)
    /\ consumed' = [consumed EXCEPT ![loc[p].token] = @ + 1]
    /\ Finish(p, PasswordResetConfirmView_response(loc[p].token, TRUE, "ok"))
    /\ UNCHANGED <<now, ticks, tokens, unswept, nextSecret, sweep>>
    /\ UNCHANGED authVars

\* EmailVerificationView.post: the response for the token sent, given what
\* AuthService.verify_email returned
EmailVerificationView_response(token, success, why) ==
    IF success
    THEN Response(200, "Email verified successfully.", "verify_email", token, why)
    ELSE Response(400, "Invalid or expired token.", "verify_email", token, why)

\* EmailVerificationView.post: verify_email looks the token up with get()
EmailVerificationView_post(p, s) ==
    /\ At(p, "idle")
    /\ IF LookupLive("EmailVerification", s, now) = {}
          THEN Finish(p, EmailVerificationView_response(s, FALSE,
                            FailureReason("EmailVerification", s, now)))
          ELSE /\ pc' = [pc EXCEPT ![p] = "verify_save_token"]
               /\ loc' = [loc EXCEPT ![p] =
                     Loaded(CHOOSE r \in LookupLive("EmailVerification", s, now) : TRUE, NULL)]
               /\ returned' = NoResp
    /\ UNCHANGED <<now, ticks, users, tokens, unswept, nextSecret, sweep, consumed>>
    /\ UNCHANGED authVars

\* verify_email: verification.used_at = timezone.now(); verification.save()
verify_email_save_token(p) ==
    /\ At(p, "verify_save_token")
    /\ tokens' = SaveRow(UsedRow("EmailVerification", loc[p], now))
    /\ unswept' = Unswept_SaveRow(UsedRow("EmailVerification", loc[p], now))
    /\ pc' = [pc EXCEPT ![p] = "verify_save_user"]
    /\ returned' = NoResp
    /\ UNCHANGED <<now, ticks, users, nextSecret, loc, sweep, consumed>>
    /\ UNCHANGED authVars

\* an UPDATE of email_verified without the filter on the user
SetEmailVerified_EveryUser(u) ==
    [v \in DOMAIN users |-> [users[v] EXCEPT !.email_verified = TRUE]]

\* verification.user.email_verified = True;
\* user.save(update_fields=['email_verified', 'updated_at'])
SetEmailVerified(u) == [users EXCEPT ![u].email_verified = TRUE]

\* verify_email: the user is saved and True is returned
verify_email_save_user(p) ==
    /\ At(p, "verify_save_user")
    /\ users' = SetEmailVerified(loc[p].user)
    /\ consumed' = [consumed EXCEPT ![loc[p].token] = @ + 1]
    /\ Finish(p, EmailVerificationView_response(loc[p].token, TRUE, "ok"))
    /\ UNCHANGED <<now, ticks, tokens, unswept, nextSecret, sweep>>
    /\ UNCHANGED authVars

\* reset_password, its first line taken apart: timezone.now() is an argument
\* of get(), so the process reads its clock before the query is sent
PasswordResetConfirmView_post_clock(p, s, pw) ==
    /\ At(p, "idle")
    /\ pc' = [pc EXCEPT ![p] = "reset_get"]
    /\ loc' = [loc EXCEPT ![p] = [NoLoc EXCEPT !.token = s, !.new_password = pw,
                                                !.req = [now |-> now]]]
    /\ returned' = NoResp
    /\ UNCHANGED <<now, ticks, users, tokens, unswept, nextSecret, sweep, consumed>>
    /\ UNCHANGED authVars

\* reset_password: the query of get(), with the time read before
reset_password_get(p) ==
    /\ At(p, "reset_get")
    /\ IF LookupLive("PasswordReset", loc[p].token, loc[p].req.now) = {}
          THEN Finish(p, PasswordResetConfirmView_response(loc[p].token, FALSE,
                            FailureReason("PasswordReset", loc[p].token, loc[p].req.now)))
          ELSE /\ pc' = [pc EXCEPT ![p] = "reset_save_token"]
               /\ loc' = [loc EXCEPT ![p] =
                     Loaded(CHOOSE r \in LookupLive("PasswordReset", loc[p].token,
                                                    loc[p].req.now) : TRUE,
                            loc[p].new_password)]
               /\ returned' = NoResp
    /\ UNCHANGED <<now, ticks, users, tokens, unswept, nextSecret, sweep, consumed>>
    /\ UNCHANGED authVars

\* verify_email, its first line taken apart in the same way
EmailVerificationView_post_clock(p, s) ==
    /\ At(p, "idle")
    /\ pc' = [pc EXCEPT ![p] = "verify_get"]
    /\ loc' = [loc EXCEPT ![p] = [NoLoc EXCEPT !.token = s, !.req = [now |-> now]]]
    /\ returned' = NoResp
    /\ UNCHANGED <<now, ticks, users, tokens, unswept, nextSecret, sweep, consumed>>
    /\ UNCHANGED authVars

\* verify_email: the query of get(), with the time read before
verify_email_get(p) ==
    /\ At(p, "verify_get")
    /\ IF LookupLive("EmailVerification", loc[p].token, loc[p].req.now) = {}
          THEN Finish(p, EmailVerificationView_response(loc[p].token, FALSE,
                            FailureReason("EmailVerification", loc[p].token, loc[p].req.now)))
          ELSE /\ pc' = [pc EXCEPT ![p] = "verify_save_token"]
               /\ loc' = [loc EXCEPT ![p] =
                     Loaded(CHOOSE r \in LookupLive("EmailVerification", loc[p].token,
                                                    loc[p].req.now) : TRUE, NULL)]
               /\ returned' = NoResp
    /\ UNCHANGED <<now, ticks, users, tokens, unswept, nextSecret, sweep, consumed>>
    /\ UNCHANGED authVars

\* --------------------------------------------------------- cleanup sweep
\* a DELETE with expires_at__lte
DeleteExpired_Inclusive(kind, t) ==
    {r \in tokens : ~(r.kind = kind /\ r.expires_at <= t)}

\* filter(expires_at__lt=t).delete() on one token table
DeleteExpired(kind, t) ==
    {r \in tokens : ~(r.kind = kind /\ r.expires_at < t)}

\* cleanup_expired_tokens: now = timezone.now(), then the DELETE on
\* password_reset_tokens
cleanup_expired_tokens_reset ==
    /\ Delivered
    /\ sweep.pc = "idle"
    /\ tokens' = DeleteExpired("PasswordReset", now)
    /\ UNCHANGED unswept
    /\ sweep' = [pc |-> "delete_verification", now |-> now]
    /\ returned' = NoResp
    /\ UNCHANGED <<now, ticks, users, nextSecret, pc, loc, consumed>>
    /\ UNCHANGED authVars

\* cleanup_expired_tokens: the DELETE on email_verification_tokens, with
\* the now read before the first DELETE
cleanup_expired_tokens_verification ==
    /\ Delivered
    /\ sweep.pc = "delete_verification"
    /\ tokens' = DeleteExpired("EmailVerification", sweep.now)
    /\ UNCHANGED unswept
    /\ sweep' = [pc |-> "idle", now |-> NULL]
    /\ returned' = NoResp
    /\ UNCHANGED <<now, ticks, users, nextSecret, pc, loc, consumed>>
    /\ UNCHANGED authVars

\* ----------------------------------------------------------- Rate Limiter
\* RegistrationThrottle and PasswordResetThrottle are AnonRateThrottle with
\* a rate of their own: allow_request reads the list of request times under
\* the cache key, drops the times a period or more ago, refuses when the
\* list has num_requests entries, and otherwise writes the list back with
\* the time of this request in front.

\* the scope of the throttle class of a view: neither class sets one
ThrottleScope(view) == "anon"

\* get_cache_key of an unauthenticated request from address ident
get_cache_key(view, ident) == <<ThrottleScope(view), ident>>

\* parse_rate(rate)[0] of the throttle class of a view
num_requests(view) ==
    IF view = "RegisterView" THEN REGISTRATION_RATE ELSE PASSWORD_RESET_RATE

\* while self.history and self.history[-1] <= self.now - self.duration:
\*     self.history.pop()
DropOld(h, t) == SelectSeq(h, LAMBDA x : x > t - THROTTLE_PERIOD_HOURS)

\* the response to a throttled request
Throttled_response(view, ident) ==
    Answers(Response(429, "Request was throttled.", view, NULL, "throttled"),
            [view |-> view, ident |-> ident])

\* a further request of the view from the address may be let through
AdmitBudget(view, ident) ==
    Len(admitted[<<view, ident>>])
       + Cardinality({q \in Procs : /\ pc[q] = "throttle_set"
                                    /\ loc[q].req.view = view
                                    /\ loc[q].req.ident = ident}) < MaxAdmitted

\* APIView.check_throttles, allow_request up to the length test:
\* cache.get(key, []), the timer, and the refusal
check_throttles_get(p, view, ident) ==
    /\ At(p, "idle")
    /\ AdmitBudget(view, ident)
    /\ IF Len(DropOld(history[get_cache_key(view, ident)], now)) >= num_requests(view)
          THEN Finish(p, Throttled_response(view, ident))
          ELSE /\ pc' = [pc EXCEPT ![p] = "throttle_set"]
               /\ loc' = [loc EXCEPT ![p] = [NoLoc EXCEPT !.req =
                     [view |-> view, ident |-> ident, now |-> now,
                      history |-> DropOld(history[get_cache_key(view, ident)], now)]]]
               /\ returned' = NoResp
    /\ UNCHANGED <<now, ticks, users, tokens, unswept, nextSecret, sweep, consumed>>
    /\ UNCHANGED authVars

\* throttle_success: self.history.insert(0, self.now);
\* cache.set(self.key, self.history, self.duration); the request goes on to
\* the view
check_throttles_set(p) ==
    /\ At(p, "throttle_set")
    /\ history' = [history EXCEPT ![get_cache_key(loc[p].req.view, loc[p].req.ident)] =
                      <<loc[p].req.now>> \o loc[p].req.history]
    /\ admitted' = [admitted EXCEPT ![<<loc[p].req.view, loc[p].req.ident>>] =
                      <<loc[p].req.now>> \o DropOld(@, loc[p].req.now)]
    /\ pc' = [pc EXCEPT ![p] = loc[p].req.view]
    /\ loc' = [loc EXCEPT ![p] = NoLoc]
    /\ returned' = NoResp
    /\ UNCHANGED <<now, ticks, users, tokens, unswept, nextSecret, sweep, consumed>>
    /\ UNCHANGED <<sessions, blacklist, nextJti>>

\* -------------------------------------------------------- Session Manager
\* LoginView, RefreshTokenView and LogoutView rest on
\* rest_framework_simplejwt with its token_blacklist app (LogoutView calls
\* token.blacklist()): a refresh token is a signed JWT whose jti has an
\* OutstandingToken row, and it is revoked by a BlacklistedToken row.

\* RefreshToken.for_user may still be called
SessionBudget ==
    nextJti + Cardinality({q \in Procs : pc[q] \in RegisterPcs}) <= MaxSessions

\* authenticate(email=..., password=...) of TokenObtainPairSerializer: the
\* user whose email is the one typed, if the password is right and the user
\* is_active; None otherwise
Authenticate(email, password) ==
    {u \in DOMAIN users : /\ users[u].email = email
                          /\ users[u].password = password
                          /\ users[u].is_active}

\* which case of authenticate a login is (kept with the response only)
LoginCase(email, password) ==
    IF ~\E u \in DOMAIN users : users[u].email = email THEN "unknown"
    ELSE IF \E u \in DOMAIN users : users[u].email = email /\ ~users[u].is_active
         THEN "inactive"
    ELSE IF \E u \in DOMAIN users : users[u].email = email /\ users[u].password # password
         THEN "wrong_password"
    ELSE "ok"

\* a login request: the body and the addresses the server sees
LoginRequest(email, password, forwarded, remote) ==
    [email |-> email, password |-> password, forwarded |-> forwarded, remote |-> remote]

\* get_client_ip taking the last entry of X-Forwarded-For
get_client_ip_LastEntry(forwarded, remote) ==
    IF forwarded # <<>> THEN forwarded[Len(forwarded)] ELSE remote

\* get_client_ip: the first entry of X-Forwarded-For, REMOTE_ADDR without
\* the header
get_client_ip(forwarded, remote) ==
    IF forwarded # <<>> THEN Head(forwarded) ELSE remote

\* the update of last_login_ip without the status check
UpdateLastLoginIp_Always(status, email, ip) ==
    [u \in DOMAIN users |->
        IF users[u].email = Lower(email)
        THEN [users[u] EXCEPT !.last_login_ip = ip] ELSE users[u]]

\* if response.status_code == 200:
\*     email = request.data.get('email', '').lower()
\*     User.objects.filter(email=email).update(last_login_ip=ip)
UpdateLastLoginIp(status, email, ip) ==
    IF status = 200
    THEN [u \in DOMAIN users |->
             IF users[u].email = Lower(email)
             THEN [users[u] EXCEPT !.last_login_ip = ip] ELSE users[u]]
    ELSE users

\* the OutstandingToken row RefreshToken.for_user(user) creates at time t
OutstandingToken(jti, user, t) ==
    [jti |-> jti, user |-> user, expires_at |-> t + REFRESH_TOKEN_LIFETIME_HOURS]

\* the response of TokenObtainPairView.post: AuthenticationFailed, or the
\* token pair and the user
LoginView_response(jti, user, why) ==
    IF why = "ok"
    THEN WithAccess(Response(200, "access, refresh, user", "login", jti, why), user)
    ELSE Response(401, "No active account found with the given credentials",
                  "login", NULL, why)

\* LoginView.post: super().post() authenticates and, with a user, creates
\* the refresh token; a failure is returned as it is
LoginView_post(p, email, password, forwarded, remote) ==
    /\ At(p, "idle")
    /\ IF Authenticate(email, password) = {}
          THEN /\ users' = UpdateLastLoginIp(401, email, get_client_ip(forwarded, remote))
               /\ Finish(p, Answers(LoginView_response(NULL, NULL, LoginCase(email, password)),
                                    LoginRequest(email, password, forwarded, remote)))
               /\ UNCHANGED <<sessions, nextJti>>
          ELSE /\ SessionBudget
               /\ sessions' = sessions \cup
                     {OutstandingToken(nextJti,
                         CHOOSE u \in Authenticate(email, password) : TRUE, now)}
               /\ nextJti' = nextJti + 1
               /\ pc' = [pc EXCEPT ![p] = "login_update"]
               /\ loc' = [loc EXCEPT ![p] =
                     [NoLoc EXCEPT !.user = CHOOSE u \in Authenticate(email, password) : TRUE,
                                   !.token = nextJti,
                                   !.req = LoginRequest(email, password, forwarded, remote)]]
               /\ returned' = NoResp
               /\ UNCHANGED users
    /\ UNCHANGED <<now, ticks, tokens, unswept, nextSecret, sweep, consumed>>
    /\ UNCHANGED <<blacklist, history, admitted>>

\* LoginView.post after super().post() returned 200: the UPDATE of
\* last_login_ip, then the response
LoginView_post_update(p) ==
    /\ At(p, "login_update")
    /\ users' = UpdateLastLoginIp(200, loc[p].req.email,
                                  get_client_ip(loc[p].req.forwarded, loc[p].req.remote))
    /\ Finish(p, Answers(LoginView_response(loc[p].token, loc[p].user, "ok"), loc[p].req))
    /\ UNCHANGED <<now, ticks, tokens, unswept, nextSecret, sweep, consumed>>
    /\ UNCHANGED authVars

\* a decode that still accepts a token at the instant it expires
VerifyRefreshToken_ExpiryStrict(jti, t) ==
    IF ~\E r \in sessions : r.jti = jti THEN "unknown"
    ELSE IF \E r \in sessions : r.jti = jti /\ r.expires_at < t THEN "expired"
    ELSE IF jti \in blacklist THEN "revoked"
    ELSE "ok"

\* RefreshToken(raw): the token decodes only if it was signed here and
\* exp > now (a TokenError otherwise), and verify() then looks its jti up
\* in the blacklist
VerifyRefreshToken(jti, t) ==
    IF ~\E r \in sessions : r.jti = jti THEN "unknown"
    ELSE IF \E r \in sessions : r.jti = jti /\ r.expires_at <= t THEN "expired"
    ELSE IF jti \in blacklist THEN "revoked"
    ELSE "ok"

\* the user a refresh token is signed for (its user_id claim)
SessionUser(jti) == (CHOOSE r \in sessions : r.jti = jti).user

\* RefreshTokenView (TokenRefreshView.post): InvalidToken for a TokenError,
\* else an access token with the claims of the refresh token; nothing is
\* written (ROTATE_REFRESH_TOKENS is off by default)
RefreshTokenView_response(jti, why) ==
    IF why = "ok"
    THEN WithAccess(Response(200, "access", "refresh", jti, why), SessionUser(jti))
    ELSE IF why = "revoked"
    THEN Response(401, "Token is blacklisted", "refresh", jti, why)
    ELSE Response(401, "Token is invalid or expired", "refresh", jti, why)

RefreshTokenView_post(p, jti) ==
    /\ At(p, "idle")
    /\ Finish(p, RefreshTokenView_response(jti, VerifyRefreshToken(jti, now)))
    /\ UNCHANGED <<now, ticks, users, tokens, unswept, nextSecret, sweep, consumed>>
    /\ UNCHANGED authVars

\* a logout that answers success without blacklisting the token
Blacklist_Nothing(jti) == blacklist

\* token.blacklist(): BlacklistedToken.objects.get_or_create(token=...)
Blacklist(jti) == blacklist \cup {jti}

\* an except branch that answers success too
LogoutView_response_AlwaysSuccess(jti, why) ==
    Response(200, "Logged out successfully.", "logout", jti, why)

\* LogoutView.post: the two responses of the view
LogoutView_response(jti, why) ==
    IF why \in {"ok", "no_token"}
    THEN Response(200, "Logged out successfully.", "logout", jti, why)
    ELSE Response(400, "Invalid token.", "logout", jti, why)

\* a test for None in place of the truth test
HasRefresh_NotNone(refresh_token) == refresh_token # NULL

\* refresh_token = request.data.get('refresh'); if refresh_token: a missing
\* key (None) and an empty string are both false
HasRefresh(refresh_token) == refresh_token \notin {NULL, EMPTY}

\* LogoutView.post up to RefreshToken(refresh_token): without a refresh
\* token in the body the view answers success at once; a TokenError is
\* caught and answered with 400
LogoutView_post(p, jti) ==
    /\ At(p, "idle")
    /\ IF ~HasRefresh(jti)
          THEN Finish(p, Answers(LogoutView_response(NULL, "no_token"), jti))
          ELSE IF VerifyRefreshToken(jti, now) # "ok"
          THEN Finish(p, LogoutView_response(jti, VerifyRefreshToken(jti, now)))
          ELSE /\ pc' = [pc EXCEPT ![p] = "logout_blacklist"]
               /\ loc' = [loc EXCEPT ![p] = [NoLoc EXCEPT !.token = jti]]
               /\ returned' = NoResp
    /\ UNCHANGED <<now, ticks, users, tokens, unswept, nextSecret, sweep, consumed>>
    /\ UNCHANGED authVars

\* LogoutView.post: token.blacklist(), then the success response
LogoutView_post_blacklist(p) ==
    /\ At(p, "logout_blacklist")
    /\ blacklist' = Blacklist(loc[p].token)
    /\ Finish(p, LogoutView_response(loc[p].token, "ok"))
    /\ UNCHANGED <<now, ticks, users, tokens, unswept, nextSecret, sweep, consumed>>
    /\ UNCHANGED <<sessions, nextJti, history, admitted>>

\* ------------------------------------------------------------ RegisterView
\* the responses of RegisterView.create: the ValidationError of
\* validate_email, the exception of create_user or send_mail leaving the
\* view, and the 201 with the token pair
RegisterView_response(why, jti, user) ==
    IF why = "exists"
    THEN Response(400, "A user with this email already exists.", "register", NULL, why)
    ELSE IF why = "weak_password"
    THEN Response(400, "This password is too short.", "register", NULL, why)
    ELSE IF why = "password_mismatch"
    THEN Response(400, "Passwords do not match.", "register", NULL, why)
    ELSE IF why \in {"duplicate", "mail"}
    THEN Response(500, "Server Error (500)", "register", NULL, why)
    ELSE WithAccess(Response(201, "Registration successful. Please verify your email.",
                             "register", jti, why), user)

\* serializer.is_valid(raise_exception=True) of UserRegistrationSerializer:
\* the fields first (validate_email lower-cases the address and refuses one
\* that a user already has; validate_password refuses a weak password), then
\* validate(), which compares the two passwords.  The 400 carries a message
\* for every refused field; the model keeps the first.
RegisterValidation(email, password, password_confirm) ==
    IF \E u \in DOMAIN users : users[u].email = Lower(email) THEN "exists"
    ELSE IF password \in WeakPasswords THEN "weak_password"
    ELSE IF password # password_confirm THEN "password_mismatch"
    ELSE "ok"

\* RegisterView.create up to serializer.is_valid: a ValidationError is
\* answered with 400 before any statement that writes
RegisterView_create(p, email, password, password_confirm) ==
    /\ Delivered
    /\ pc[p] \in {"idle", "RegisterView"}
    /\ IF RegisterValidation(email, password, password_confirm) # "ok"
          THEN Finish(p, RegisterView_response(
                            RegisterValidation(email, password, password_confirm),
                            NULL, NULL))
          ELSE /\ IssueBudget
               /\ SessionBudget
               /\ pc' = [pc EXCEPT ![p] = "register_save"]
               /\ loc' = [loc EXCEPT ![p] =
                     [NoLoc EXCEPT !.user = email.name,
                                   !.new_password = password,
                                   !.req = Lower(email)]]
               /\ returned' = NoResp
    /\ UNCHANGED <<now, ticks, users, tokens, unswept, nextSecret, sweep, consumed>>
    /\ UNCHANGED authVars

\* an email_verified column with default=True
NewUser_Verified(email, password) ==
    [email |-> email, is_active |-> TRUE, email_verified |-> TRUE,
     password |-> password, last_login_ip |-> NULL]

\* the row of User.objects.create_user(email=..., password=...): is_active
\* and email_verified take their defaults
NewUser(email, password) ==
    [email |-> email, is_active |-> TRUE, email_verified |-> FALSE,
     password |-> password, last_login_ip |-> NULL]

\* serializer.save(): the INSERT into users; the unique index on email
\* refuses a second row with the address (IntegrityError)
RegisterView_create_save(p) ==
    /\ At(p, "register_save")
    /\ IF \E u \in DOMAIN users : users[u].email = loc[p].req
          THEN /\ Finish(p, RegisterView_response("duplicate", NULL, NULL))
               /\ UNCHANGED users
          ELSE /\ users' = [u \in DOMAIN users \cup {loc[p].user} |->
                              IF u = loc[p].user
                              THEN NewUser(loc[p].req, loc[p].new_password)
                              ELSE users[u]]
               /\ pc' = [pc EXCEPT ![p] = "register_invalidate"]
               /\ returned' = NoResp
               /\ UNCHANGED loc
    /\ UNCHANGED <<now, ticks, tokens, unswept, nextSecret, sweep, consumed>>
    /\ UNCHANGED authVars

\* AuthService.send_verification_email(user): the UPDATE, generate_token()
\* and expires_at
RegisterView_create_invalidate(p) ==
    /\ At(p, "register_invalidate")
    /\ tokens' = InvalidatePrior("EmailVerification", loc[p].user, now)
    /\ unswept' = Unswept_InvalidatePrior("EmailVerification", loc[p].user, now)
    /\ loc' = [loc EXCEPT ![p].token = nextSecret,
                          ![p].expires_at = ExpiresAt("EmailVerification", now)]
    /\ nextSecret' = nextSecret + 1
    /\ pc' = [pc EXCEPT ![p] = "register_token"]
    /\ returned' = NoResp
    /\ UNCHANGED <<now, ticks, users, sweep, consumed>>
    /\ UNCHANGED authVars

\* AuthService.send_verification_email(user): the INSERT of the token, then
\* send_mail, which delivers or raises out of the view
RegisterView_create_token(p) ==
    /\ At(p, "register_token")
    /\ \E raised \in BOOLEAN :
          /\ tokens' = AfterSendMail(raised, tokens, tokens \cup
                {CreateToken("EmailVerification", loc[p].user, loc[p].token,
                             loc[p].expires_at, now)})
          /\ unswept' = AfterSendMail(raised, unswept, unswept \cup
                {CreateToken("EmailVerification", loc[p].user, loc[p].token,
                             loc[p].expires_at, now)})
          /\ IF raised
                THEN Finish(p, RegisterView_response("mail", NULL, NULL))
                ELSE /\ pc' = [pc EXCEPT ![p] = "register_session"]
                     /\ returned' = NoResp
                     /\ UNCHANGED loc
    /\ UNCHANGED <<now, ticks, users, nextSecret, sweep, consumed>>
    /\ UNCHANGED authVars

\* RefreshToken.for_user(user), then the 201 response
RegisterView_create_session(p) ==
    /\ At(p, "register_session")
    /\ sessions' = sessions \cup {OutstandingToken(nextJti, loc[p].user, now)}
    /\ nextJti' = nextJti + 1
    /\ Finish(p, Mailed(RegisterView_response("ok", nextJti, loc[p].user), loc[p].token))
    /\ UNCHANGED <<now, ticks, users, tokens, unswept, nextSecret, sweep, consumed>>
    /\ UNCHANGED <<blacklist, history, admitted>>

\* ------------------------------------------------ Credential Store failures
\* A statement that the database refuses raises a DatabaseError at the ORM
\* call.  The services catch DoesNotExist only and the views catch nothing,
\* so the exception leaves the view and Django answers 500; LogoutView.post
\* wraps its body in `except Exception` and answers 400.

\* the views whose exceptions leave the view
UncaughtOps == {"reset_request", "resend", "reset_confirm", "verify_email",
                "login", "refresh", "register"}

\* the request a worker is in the middle of
OpAt(label) ==
    IF label \in {"reset_invalidate", "reset_create"} THEN "reset_request"
    ELSE IF label \in {"verify_invalidate", "verify_create"} THEN "resend"
    ELSE IF label \in {"reset_save_token", "reset_save_user"} THEN "reset_confirm"
    ELSE IF label \in {"verify_save_token", "verify_save_user"} THEN "verify_email"
    ELSE IF label = "login_update" THEN "login"
    ELSE IF label \in RegisterPcs THEN "register"
    ELSE IF label = "logout_blacklist" THEN "logout"
    ELSE "none"

\* the statement a request of worker p runs next (its first one when the
\* worker is idle) raises a DatabaseError that nothing catches: the rows
\* written before stay, the request ends with Django's 500
StoreFailure(p, op) ==
    /\ Delivered
    /\ op \in UncaughtOps
    /\ pc[p] # "idle" => op = OpAt(pc[p])
    /\ Finish(p, Response(500, "Server Error (500)", op, NULL, "store"))
    /\ UNCHANGED <<now, ticks, users, tokens, unswept, nextSecret, sweep, consumed>>
    /\ UNCHANGED authVars

\* LogoutView.post when the blacklist lookup of RefreshToken(refresh_token)
\* (made once the token has decoded) or a statement of token.blacklist()
\* raises a DatabaseError: the `except Exception` of the view answers it
\* like a TokenError
LogoutView_post_store_failure(p, jti) ==
    /\ Delivered
    /\ \/ pc[p] = "idle" /\ VerifyRefreshToken(jti, now) \in {"ok", "revoked"}
       \/ pc[p] = "logout_blacklist" /\ jti = loc[p].token
    /\ Finish(p, LogoutView_response(jti, "store"))
    /\ UNCHANGED <<now, ticks, users, tokens, unswept, nextSecret, sweep, consumed>>
    /\ UNCHANGED authVars

\* ------------------------------------------------------- specifications
\* the secrets a request may present: those generate_token has returned,
\* and one it has not returned
Presented == 1..nextSecret

\* no request and no sweep is under way
Quiet == (\A q \in Procs : pc[q] = "idle") /\ sweep.pc = "idle"

\* requests and the sweep run concurrently, statement by statement
Next ==
    \/ Deliver
    \/ Tick
    \/ cleanup_expired_tokens_reset
    \/ cleanup_expired_tokens_verification
    \/ \E p \in Procs :
          \/ \E e \in EmailInputs : PasswordResetRequestView_post(p, e)
          \/ send_password_reset_email_invalidate(p)
          \/ send_password_reset_email_create(p)
          \/ \E u \in UserIds : ResendVerificationView_post(p, u)
          \/ send_verification_email_invalidate(p)
          \/ send_verification_email_create(p)
          \/ \E s \in Presented, pw \in Passwords : PasswordResetConfirmView_post(p, s, pw)
          \/ reset_password_save_token(p)
          \/ reset_password_save_user(p)
          \/ \E s \in Presented : EmailVerificationView_post(p, s)
          \/ verify_email_save_token(p)
          \/ verify_email_save_user(p)

Spec == Init /\ [][Next]_vars

\* one request or sweep at a time: the next one starts when the last one
\* has returned; the clock advances at any point
SeqNext ==
    \/ Deliver
    \/ Tick
    \/ Quiet /\ cleanup_expired_tokens_reset
    \/ cleanup_expired_tokens_verification
    \/ \E p \in {1} :
          \/ Quiet /\ \E e \in EmailInputs : PasswordResetRequestView_post(p, e)
          \/ send_password_reset_email_invalidate(p)
          \/ send_password_reset_email_create(p)
          \/ Quiet /\ \E u \in UserIds : ResendVerificationView_post(p, u)
          \/ send_verification_email_invalidate(p)
          \/ send_verification_email_create(p)
          \/ Quiet /\ \E s \in Presented, pw \in Passwords :
                         PasswordResetConfirmView_post(p, s, pw)
          \/ reset_password_save_token(p)
          \/ reset_password_save_user(p)
          \/ Quiet /\ \E s \in Presented : EmailVerificationView_post(p, s)
          \/ verify_email_save_token(p)
          \/ verify_email_save_user(p)

SeqSpec == Init /\ [][SeqNext]_vars

\* the refresh tokens a request may present: those signed so far, and one
\* that was never signed
PresentedJti == 1..nextJti

\* the users table when the Session Manager is looked at: user 2 has
\* verified the email address
SessionInit ==
    /\ now = 0
    /\ ticks = 0
    /\ users = [u \in UserIds |->
                    [email |-> [name |-> u, upper |-> FALSE],
                     is_active |-> u \notin InactiveUsers,
                     email_verified |-> (u = 2),
                     password |-> 0,
                     last_login_ip |-> NULL]]
    /\ tokens = {}
    /\ unswept = {}
    /\ nextSecret = 1
    /\ pc = [p \in Procs |-> "idle"]
    /\ loc = [p \in Procs |-> NoLoc]
    /\ returned = NoResp
    /\ sweep = [pc |-> "idle", now |-> NULL]
    /\ consumed = [s \in Secrets |-> 0]
    /\ sessions = {}
    /\ blacklist = {}
    /\ nextJti = 1
    /\ history = [k \in CacheKeys |-> <<>>]
    /\ admitted = [k \in ThrottledViews \X Addresses |-> <<>>]

\* login, refresh and logout requests run concurrently
SessionNext ==
    \/ Deliver
    \/ Tick
    \/ \E p \in Procs :
          \/ \E e \in EmailInputs, pw \in LoginPasswords, f \in ForwardedFor :
                LoginView_post(p, e, pw, f, 1)
          \/ LoginView_post_update(p)
          \/ \E j \in PresentedJti : RefreshTokenView_post(p, j)
          \/ \E j \in PresentedJti \cup {NULL, EMPTY} : LogoutView_post(p, j)
          \/ LogoutView_post_blacklist(p)

SessionSpec == SessionInit /\ [][SessionNext]_vars

\* the Rate Limiter in front of its two views, for concurrent requests
\* from one address whose view writes no row: registrations with the address
\* of a user and password reset requests for an address of no active user
ThrottleNext ==
    \/ Deliver
    \/ Tick
    \/ \E p \in Procs :
          \/ \E v \in ThrottledViews, a \in {1} : check_throttles_get(p, v, a)
          \/ check_throttles_set(p)
          \/ /\ pc[p] = "RegisterView"
             /\ \E e \in EmailInputs : /\ e.name \in UserIds
                                        /\ RegisterView_create(p, e, 0, 0)
          \/ /\ pc[p] = "PasswordResetRequestView"
             /\ \E e \in EmailInputs : /\ ActiveUserByEmail(e) = {}
                                        /\ PasswordResetRequestView_post(p, e)

ThrottleSpec == Init /\ [][ThrottleNext]_vars

\* the same with one request at a time, from either address
ThrottleSeqNext ==
    \/ Deliver
    \/ Tick
    \/ \E p \in {1} :
          \/ \E v \in ThrottledViews, a \in Addresses : check_throttles_get(p, v, a)
          \/ check_throttles_set(p)
          \/ /\ pc[p] = "RegisterView"
             /\ \E e \in EmailInputs : /\ e.name \in UserIds
                                        /\ RegisterView_create(p, e, 0, 0)
          \/ /\ pc[p] = "PasswordResetRequestView"
             /\ \E e \in EmailInputs : /\ ActiveUserByEmail(e) = {}
                                        /\ PasswordResetRequestView_post(p, e)

ThrottleSeqSpec == Init /\ [][ThrottleSeqNext]_vars

\* one request at a time, registrations among them; the registered user
\* may ask for the verification mail again
RegisterNext ==
    \/ SeqNext
    \/ \E p \in {1} :
          \/ Quiet /\ \E e \in EmailInputs, pw, pwc \in RegisterPasswords :
                         RegisterView_create(p, e, pw, pwc)
          \/ RegisterView_create_save(p)
          \/ RegisterView_create_invalidate(p)
          \/ RegisterView_create_token(p)
          \/ RegisterView_create_session(p)
          \/ Quiet /\ \E u \in DOMAIN users \ UserIds : ResendVerificationView_post(p, u)

RegisterSpec == Init /\ [][RegisterNext]_vars

\* one request at a time, of every view, with a database that may refuse
\* any statement; the clock stands still
FaultNext ==
    \/ Deliver
    \/ \E p \in {1} :
          \/ Quiet /\ \E e \in EmailInputs : PasswordResetRequestView_post(p, e)
          \/ send_password_reset_email_invalidate(p)
          \/ send_password_reset_email_create(p)
          \/ Quiet /\ \E u \in DOMAIN users : ResendVerificationView_post(p, u)
          \/ send_verification_email_invalidate(p)
          \/ send_verification_email_create(p)
          \/ Quiet /\ \E s \in Presented, pw \in Passwords :
                         PasswordResetConfirmView_post(p, s, pw)
          \/ reset_password_save_token(p)
          \/ reset_password_save_user(p)
          \/ Quiet /\ \E s \in Presented : EmailVerificationView_post(p, s)
          \/ verify_email_save_token(p)
          \/ verify_email_save_user(p)
          \/ Quiet /\ \E e \in EmailInputs : RegisterView_create(p, e, 0, 0)
          \/ RegisterView_create_save(p)
          \/ RegisterView_create_invalidate(p)
          \/ RegisterView_create_token(p)
          \/ RegisterView_create_session(p)
          \/ Quiet /\ \E e \in EmailInputs, pw \in LoginPasswords :
                         LoginView_post(p, e, pw, <<>>, 1)
          \/ LoginView_post_update(p)
          \/ Quiet /\ \E j \in PresentedJti : RefreshTokenView_post(p, j)
          \/ Quiet /\ \E j \in PresentedJti \cup {NULL, EMPTY} : LogoutView_post(p, j)
          \/ LogoutView_post_blacklist(p)
          \/ \E op \in UncaughtOps : StoreFailure(p, op)
          \/ \E j \in PresentedJti : LogoutView_post_store_failure(p, j)

FaultSpec == Init /\ [][FaultNext]_vars

\* one request at a time, each consume reading its clock before its query,
\* while the cleanup task runs
SweepNext ==
    \/ Deliver
    \/ Tick
    \/ cleanup_expired_tokens_reset
    \/ cleanup_expired_tokens_verification
    \/ \E p \in {1} :
          \/ \E e \in EmailInputs : /\ pc[p] = "idle"
                                     /\ PasswordResetRequestView_post(p, e)
          \/ send_password_reset_email_invalidate(p)
          \/ send_password_reset_email_create(p)
          \/ \E u \in UserIds : ResendVerificationView_post(p, u)
          \/ send_verification_email_invalidate(p)
          \/ send_verification_email_create(p)
          \/ \E s \in Presented, pw \in Passwords :
                PasswordResetConfirmView_post_clock(p, s, pw)
          \/ reset_password_get(p)
          \/ reset_password_save_token(p)
          \/ reset_password_save_user(p)
          \/ \E s \in Presented : EmailVerificationView_post_clock(p, s)
          \/ verify_email_get(p)
          \/ verify_email_save_token(p)
          \/ verify_email_save_user(p)

SweepSpec == Init /\ [][SweepNext]_vars

\* registrations run concurrently
RegisterRaceNext ==
    \/ Deliver
    \/ Tick
    \/ \E p \in Procs :
          \/ \E e \in EmailInputs, pw, pwc \in RegisterPasswords :
                /\ pc[p] = "idle"
                /\ RegisterView_create(p, e, pw, pwc)
          \/ RegisterView_create_save(p)
          \/ RegisterView_create_invalidate(p)
          \/ RegisterView_create_token(p)
          \/ RegisterView_create_session(p)

RegisterRaceSpec == Init /\ [][RegisterRaceNext]_vars

\* one request at a time: logins with the password every user starts with,
\* refreshes, logouts, resends, password reset requests and their confirms
ResetSessionNext ==
    \/ Deliver
    \/ Tick
    \/ \E p \in {1} :
          \/ \E e \in EmailInputs : LoginView_post(p, e, 0, <<>>, 1)
          \/ LoginView_post_update(p)
          \/ \E j \in PresentedJti : RefreshTokenView_post(p, j)
          \/ \E j \in PresentedJti : LogoutView_post(p, j)
          \/ LogoutView_post_blacklist(p)
          \/ \E u \in UserIds : ResendVerificationView_post(p, u)
          \/ send_verification_email_invalidate(p)
          \/ send_verification_email_create(p)
          \/ \E e \in EmailInputs : /\ pc[p] = "idle"
                                     /\ PasswordResetRequestView_post(p, e)
          \/ send_password_reset_email_invalidate(p)
          \/ send_password_reset_email_create(p)
          \/ \E s \in Presented, pw \in Passwords : PasswordResetConfirmView_post(p, s, pw)
          \/ reset_password_save_token(p)
          \/ reset_password_save_user(p)

ResetSessionSpec == SessionInit /\ [][ResetSessionNext]_vars

\* ================================================================ claims
ConsumeOps == {"reset_confirm", "verify_email"}
IssuePcs == {"reset_invalidate", "reset_create", "verify_invalidate", "verify_create"}

\* the tokens of (u, k) that are unused and unexpired now
Live(u, k) == {r \in tokens : r.user = u /\ r.kind = k /\ is_valid(r, now)}

\* C1: when requests run one after another, every (user, kind) has at most
\* one token with used_at = null and expires_at > now, in every state
C1_AtMostOneLiveToken ==
    \A u \in UserIds, k \in Kinds : Cardinality(Live(u, k)) <= 1

\* C1 witness: a second issuance has invalidated an unexpired token that no
\* consume had used, and its own token is the live one
C1_Witness ==
    /\ Quiet
    /\ \E r1, r2 \in tokens :
          /\ r1.user = r2.user /\ r1.kind = r2.kind /\ r1.token < r2.token
          /\ r1.used_at # NULL /\ r1.expires_at > now /\ consumed[r1.token] = 0
          /\ is_valid(r2, now)

\* C2: of two validators that race on the secret of one live token exactly
\* one succeeds: no secret is consumed with success twice
C2_RacingValidatorsOneSuccess ==
    \A s \in Secrets : consumed[s] <= 1

\* C3: once concurrent issuances for one (user, kind) have finished, at
\* most one token of that (user, kind) is unused and unexpired
C3_ConcurrentIssuanceOneLive ==
    (\A p \in Procs : pc[p] \notin IssuePcs) =>
        \A u \in UserIds, k \in Kinds : Cardinality(Live(u, k)) <= 1

\* C4: in a sequential history, once a consume of a secret has succeeded no
\* later consume of that secret succeeds: each one returns the failure
C4_ConsumeAtMostOnce ==
    [][\A s \in Secrets :
          consumed[s] >= 1 =>
             /\ consumed'[s] = consumed[s]
             /\ (returned'.op \in ConsumeOps /\ returned'.token = s)
                   => returned'.status = 400]_vars

\* C4 witness: a consume of a secret that was consumed before has failed
C4_Witness ==
    /\ returned.op \in ConsumeOps
    /\ returned.status = 400
    /\ consumed[returned.token] = 1

\* C5: once a second token of the same kind is issued for a user, a consume
\* with the first token's secret fails, expired or not, and a consume with
\* the newest unexpired token's secret fails only if it was consumed before
C5_SecondIssuanceInvalidatesFirst ==
    \A r \in tokens :
       (returned.op = (IF r.kind = "PasswordReset" THEN "reset_confirm" ELSE "verify_email")
          /\ returned.token = r.token)
       => IF \E r2 \in tokens : r2.user = r.user /\ r2.kind = r.kind /\ r2.token > r.token
             THEN returned.status = 400
             ELSE (r.expires_at > now /\ returned.status = 400) => returned.why = "used"
                                                                   /\ consumed[r.token] = 1

\* C5 witness: a consume with the second token's secret has succeeded while
\* the first token, invalidated by the second issuance, is unexpired
C5_Witness ==
    /\ returned.op \in ConsumeOps /\ returned.status = 200
    /\ \E r1, r2 \in tokens :
          /\ r1.user = r2.user /\ r1.kind = r2.kind /\ r1.token < r2.token
          /\ r2.token = returned.token
          /\ r1.expires_at > now /\ consumed[r1.token] = 0

\* C6: a token that is used, invalidated or expired never is valid again:
\* no step changes expires_at, sets used_at back to null, makes is_valid
\* true again, or brings a deleted row back as a valid one
C6_TerminalStatesStay ==
    [][/\ \A r \in tokens, r2 \in tokens' :
             (r.kind = r2.kind /\ r.token = r2.token) =>
                /\ r2.expires_at = r.expires_at
                /\ r.used_at # NULL => r2.used_at # NULL
                /\ ~is_valid(r, now) => ~is_valid(r2, now')
       /\ \A r2 \in tokens' :
             (~\E r \in tokens : r.kind = r2.kind /\ r.token = r2.token) =>
                \/ \E p \in Procs : pc[p] \in {"reset_create", "verify_create"}
                                       /\ loc[p].token = r2.token
                \/ ~is_valid(r2, now')]_vars

\* C6 witness: a validator has saved its stale copy of a token that a later
\* issuance had invalidated meanwhile
C6_Witness ==
    \E p \in Procs :
       /\ pc[p] \in {"reset_save_user", "verify_save_user"}
       /\ \E r, r2 \in tokens :
             /\ r.token = loc[p].token /\ r.used_at # NULL
             /\ r2.user = r.user /\ r2.kind = r.kind /\ r2.token > r.token

\* C7: every failed consume, whatever the reason (absent, other kind, used
\* or invalidated, expired), returns the one status and body
C7_UniformFailure ==
    (returned.op \in ConsumeOps /\ returned.why \in {"absent", "wrong_kind", "used", "expired"})
       => Seen(returned) = <<400, "Invalid or expired token.">>

\* C7 witness: a consume has failed on an expired, unused token while a
\* used token is in the table too
C7_Witness ==
    /\ returned.op \in ConsumeOps
    /\ returned.why = "expired"
    /\ \E r \in tokens : r.used_at # NULL

\* C8: a password reset request returns the same success response whether
\* the email is of an active user, an inactive user or nobody, and for an
\* email of no active user it changes no token and mails nothing
C8_ResetRequestUniform ==
    [][returned'.op = "reset_request" =>
          /\ Seen(returned') =
                <<200, "If an account exists, a password reset email has been sent.">>
          /\ returned'.why # "active" => (tokens' = tokens /\ returned'.mailed = NULL)]_vars

\* C9: a password changes exactly in the step in which reset_password
\* returns True, and then it is the password of the token's owner and the
\* token is marked used; a failed confirm changes no user and no token
C9_PasswordChangesIffConsumed ==
    [][/\ (\E u \in UserIds : users'[u].password # users[u].password)
             => (returned'.op = "reset_confirm" /\ returned'.status = 200)
       /\ (returned'.op = "reset_confirm" /\ returned'.status = 200) =>
             \E p \in Procs :
                /\ pc[p] = "reset_save_user" /\ pc'[p] = "idle"
                /\ loc[p].token = returned'.token
                /\ users'[loc[p].user].password = loc[p].new_password
                /\ \A u \in UserIds \ {loc[p].user} : users'[u] = users[u]
                /\ \A r \in tokens : r.token = returned'.token =>
                      (r.kind = "PasswordReset" /\ r.user = loc[p].user /\ r.used_at # NULL)
       /\ (returned'.op = "reset_confirm" /\ returned'.status = 400) =>
             (users' = users /\ tokens' = tokens)]_vars

\* C9 witness: a confirm has succeeded: the owner has the new password and
\* another user still has the old one
C9_Witness ==
    /\ returned.op = "reset_confirm" /\ returned.status = 200
    /\ \E r \in tokens :
          /\ r.token = returned.token /\ r.used_at # NULL
          /\ users[r.user].password = 1
          /\ \E u \in UserIds \ {r.user} : users[u].is_active /\ users[u].password = 0

\* C10: every token's expires_at is its created_at plus the TTL of its
\* kind, 24 hours for PasswordReset and 72 hours for EmailVerification
C10_ExpiresAtIsCreatedPlusTTL ==
    \A r \in tokens : r.expires_at = r.created_at + TTL(r.kind)

\* the user a login request names does not exist, is inactive, or has
\* another password
LoginMustFail(q) ==
    \/ ~\E u \in DOMAIN users : users[u].email = q.email
    \/ \E u \in DOMAIN users :
          users[u].email = q.email /\ (~users[u].is_active \/ users[u].password # q.password)

\* C11: a login with an unknown email, for an inactive user or with a wrong
\* password returns the one 401 response without tokens, creates no refresh
\* token and leaves every last_login_ip as it was
C11_LoginFailureGeneric ==
    [][(returned'.op = "login" /\ LoginMustFail(returned'.req)) =>
          /\ Seen(returned') =
                <<401, "No active account found with the given credentials">>
          /\ returned'.access = NULL /\ returned'.token = NULL
          /\ sessions' = sessions
          /\ \A u \in DOMAIN users : users'[u].last_login_ip = users[u].last_login_ip]_vars

\* C11 witness: a login with a wrong password has failed for a user who had
\* logged in from another address before
C11_Witness ==
    /\ returned.op = "login" /\ returned.why = "wrong_password"
    /\ \E u \in DOMAIN users :
          /\ users[u].email = returned.req.email
          /\ users[u].last_login_ip # NULL
          /\ users[u].last_login_ip # returned.req.remote
          /\ \E r \in sessions : r.user = u

KnownJti(jti) == \E r \in sessions : r.jti = jti
ExpiredJti(jti, t) == \E r \in sessions : r.jti = jti /\ r.expires_at <= t

\* C13: a refresh token that a logout has answered with success is on the
\* blacklist, nothing is ever taken off the blacklist, and every refresh
\* with a blacklisted token fails with 401
C13_RevocationPermanent ==
    [][/\ (returned'.op = "logout" /\ returned'.status = 200 /\ returned'.token # NULL)
             => returned'.token \in blacklist'
       /\ blacklist \subseteq blacklist'
       /\ (returned'.op = "refresh" /\ returned'.token \in blacklist)
             => (returned'.status = 401 /\ returned'.access = NULL)]_vars

\* C13 witness: a refresh with a revoked, unexpired token has failed after
\* a later login
C13_Witness ==
    /\ returned.op = "refresh" /\ returned.status = 401
    /\ returned.token \in blacklist
    /\ ~ExpiredJti(returned.token, now)
    /\ \E r \in sessions : r.jti > returned.token /\ r.jti \notin blacklist

\* C14: a refresh fails with 401 when the token was never issued, is
\* revoked or has expires_at <= now; otherwise it returns an access token
\* for the user of the refresh token; either way no row changes
C14_RefreshFrame ==
    [][returned'.op = "refresh" =>
          /\ IF \/ ~KnownJti(returned'.token)
                \/ returned'.token \in blacklist
                \/ ExpiredJti(returned'.token, now)
                THEN returned'.status = 401 /\ returned'.access = NULL
                ELSE /\ returned'.status = 200
                     /\ \E r \in sessions : r.jti = returned'.token
                                              /\ r.user = returned'.access
          /\ sessions' = sessions /\ blacklist' = blacklist /\ users' = users]_vars

\* C14 witness: a refresh has succeeded with a token while another token is
\* revoked
C14_Witness ==
    /\ returned.op = "refresh" /\ returned.status = 200
    /\ \E r \in sessions : r.jti # returned.token /\ r.jti \in blacklist

\* C15 as stated: a logout with an unknown or revoked refresh token returns
\* the one 400 and changes no row; a logout with a known, unrevoked one
\* blacklists it and returns 200
C15_LogoutAsStated ==
    [][(returned'.op = "logout" /\ returned'.token # NULL) =>
          IF KnownJti(returned'.token) /\ returned'.token \notin blacklist
          THEN returned'.status = 200 /\ returned'.token \in blacklist'
          ELSE /\ Seen(returned') = <<400, "Invalid token.">>
               /\ blacklist' = blacklist /\ sessions' = sessions]_vars

\* C15 amended: the check of the token answers an unknown, expired or
\* revoked refresh token with the one 400 and changes no row; a token that
\* passed the check is blacklisted and answered with 200; a logout without a
\* refresh token is answered with 200 and changes no row
C15_LogoutUniformFailure ==
    [][returned'.op = "logout" =>
          IF returned'.token = NULL
          THEN /\ returned'.status = 200
               /\ blacklist' = blacklist /\ sessions' = sessions
          ELSE IF \E p \in Procs : /\ pc[p] = "logout_blacklist" /\ pc'[p] = "idle"
                                    /\ loc[p].token = returned'.token
          THEN /\ Seen(returned') = <<200, "Logged out successfully.">>
               /\ blacklist' = blacklist \cup {returned'.token}
               /\ sessions' = sessions
          ELSE /\ \/ ~KnownJti(returned'.token)
                  \/ ExpiredJti(returned'.token, now)
                  \/ returned'.token \in blacklist
               /\ Seen(returned') = <<400, "Invalid token.">>
               /\ blacklist' = blacklist /\ sessions' = sessions]_vars

\* C15 witness: a logout with an expired token that was never revoked has
\* failed, while another token is revoked
C15_Witness ==
    /\ returned.op = "logout" /\ returned.status = 400
    /\ KnownJti(returned.token) /\ returned.token \notin blacklist
    /\ blacklist # {}

\* the requests of a view from an address that were let through less than
\* a period before t
AdmittedInWindow(view, ident, t) ==
    Len(SelectSeq(admitted[<<view, ident>>], LAMBDA x : x > t - THROTTLE_PERIOD_HOURS))

\* C16: a request of a view from an address is refused only when that view
\* has let `limit` requests from that address through within the last hour
\* (5 for registration, 3 for password reset), and is let through only when
\* it has let fewer through
C16_RateLimitPerKey ==
    [][/\ returned'.status = 429 =>
             AdmittedInWindow(returned'.req.view, returned'.req.ident, now)
                >= (IF returned'.req.view = "RegisterView"
                    THEN REGISTRATION_RATE ELSE PASSWORD_RESET_RATE)
       /\ \A v \in ThrottledViews, a \in Addresses :
             admitted'[<<v, a>>] # admitted[<<v, a>>] =>
                AdmittedInWindow(v, a, admitted'[<<v, a>>][1])
                   < (IF v = "RegisterView"
                      THEN REGISTRATION_RATE ELSE PASSWORD_RESET_RATE)]_vars

\* C17: under any interleaving of the requests from one address, a view
\* never has let more than `limit` of them through within one hour
C17_LimitNeverExceeded ==
    \A v \in ThrottledViews, a \in Addresses :
       AdmittedInWindow(v, a, now)
          <= (IF v = "RegisterView" THEN REGISTRATION_RATE ELSE PASSWORD_RESET_RATE)

\* the primary keys of a set of token rows
TokenKeys(rows) == {<<r.kind, r.token>> : r \in rows}

\* C18: a resend for a verified user is answered with the 400 "already
\* verified" and touches no token and no mail; for an unverified user the
\* UPDATE marks every unused EmailVerification token of that user (and no
\* other row) as used, and the next step stores exactly one new unused token
\* of that user, the one the mail carries
C18_ResendVerification ==
    [][/\ (returned'.op = "resend" /\ returned'.status = 400) =>
             /\ users[returned'.req].email_verified
             /\ Seen(returned') = <<400, "Email already verified.">>
             /\ returned'.mailed = NULL
             /\ tokens' = tokens /\ nextSecret' = nextSecret
       /\ \A p \in Procs :
             /\ (pc[p] = "idle" /\ pc'[p] = "verify_invalidate") =>
                   (~users[loc'[p].user].email_verified /\ tokens' = tokens)
             /\ (pc[p] = "verify_invalidate" /\ pc'[p] = "verify_create") =>
                   /\ TokenKeys(tokens') = TokenKeys(tokens)
                   /\ \A r \in tokens' :
                         (r.user = loc[p].user /\ r.kind = "EmailVerification")
                            => r.used_at # NULL
                   /\ \A r \in tokens :
                         (r.user # loc[p].user \/ r.kind # "EmailVerification"
                             \/ r.used_at # NULL) => r \in tokens'
             /\ (pc[p] = "verify_create" /\ pc'[p] = "idle") =>
                   /\ tokens \subseteq tokens'
                   /\ \E r \in tokens' :
                         /\ tokens' \ tokens = {r}
                         /\ r.user = loc[p].user /\ r.kind = "EmailVerification"
                         /\ r.token = loc[p].token /\ r.used_at = NULL
                   /\ returned'.op = "resend"
                   /\ returned'.status = 200 => returned'.mailed = loc[p].token]_vars

\* C18 witness: a resend has mailed a new token to a user whose earlier,
\* unexpired token it had invalidated
C18_Witness ==
    /\ returned.op = "resend" /\ returned.status = 200
    /\ \E r1, r2 \in tokens :
          /\ r2.token = returned.mailed /\ r2.used_at = NULL
          /\ r1.user = r2.user /\ r1.kind = r2.kind /\ r1.token # r2.token
          /\ r1.used_at # NULL /\ r1.expires_at > now /\ consumed[r1.token] = 0

\* the response of an issuance whose send_mail raised
MailFailed(r) ==
    /\ r.status = 500
    /\ r.op \in {"reset_request", "resend", "register"}
    /\ r.why \notin {"duplicate", "store"}

\* C19: when send_mail raises in a password reset request, a resend or a
\* registration, the token created just before stays in its table, unused
\* and with its expiry (so that a consume finds it until then), no row is
\* lost, the other tokens of that user and kind are marked used and the
\* registered user stays
C19_DispatchFailureKeepsToken ==
    [][MailFailed(returned') =>
          \E p \in Procs :
             /\ pc[p] \in {"reset_create", "verify_create", "register_token"}
             /\ pc'[p] = "idle"
             /\ tokens \subseteq tokens'
             /\ loc[p].user \in DOMAIN users'
             /\ \E r \in tokens' :
                   /\ r.kind = (IF pc[p] = "reset_create"
                                THEN "PasswordReset" ELSE "EmailVerification")
                   /\ r.token = loc[p].token /\ r.user = loc[p].user
                   /\ r.used_at = NULL /\ r.expires_at = loc[p].expires_at
                   /\ loc[p].expires_at > now' => is_valid(r, now')
                   /\ \A r2 \in tokens' :
                         (r2.user = r.user /\ r2.kind = r.kind /\ r2.token # r.token)
                            => r2.used_at # NULL]_vars

\* C19 witness: send_mail has raised in a password reset request that had
\* invalidated an earlier, unexpired token; the new token is valid
C19_Witness ==
    /\ MailFailed(returned) /\ returned.op = "reset_request"
    /\ \E r1, r2 \in tokens :
          /\ r1.user = r2.user /\ r1.kind = r2.kind /\ r1.token < r2.token
          /\ r1.used_at # NULL /\ r1.expires_at > now /\ consumed[r1.token] = 0
          /\ is_valid(r2, now)

\* C20: a request in which a statement was refused by the database is
\* answered with the generic server error, and with nothing else
C20_StoreFailureIsServerError ==
    [][returned'.why = "store" =>
          Seen(returned') = <<500, "Server Error (500)">>]_vars

\* C21: the cleanup task changes the outcome of no consume: whenever the
\* query of a consume runs, it finds a token in the swept tables exactly
\* when it finds one in the tables that were never swept, and it finds none
\* when the token of the secret had expired at the time the consume read,
\* deleted or not
C21_SweepHasNoEffect ==
    [][\A p \in Procs :
          /\ (pc[p] = "reset_get" /\ pc'[p] # "reset_get") =>
                /\ (LookupLive("PasswordReset", loc[p].token, loc[p].req.now) = {})
                      <=> (Unswept_LookupLive("PasswordReset", loc[p].token,
                                              loc[p].req.now) = {})
                /\ (\E r \in unswept : /\ r.kind = "PasswordReset"
                                        /\ r.token = loc[p].token
                                        /\ r.expires_at <= loc[p].req.now)
                      => returned'.status = 400
          /\ (pc[p] = "verify_get" /\ pc'[p] # "verify_get") =>
                /\ (LookupLive("EmailVerification", loc[p].token, loc[p].req.now) = {})
                      <=> (Unswept_LookupLive("EmailVerification", loc[p].token,
                                              loc[p].req.now) = {})
                /\ (\E r \in unswept : /\ r.kind = "EmailVerification"
                                        /\ r.token = loc[p].token
                                        /\ r.expires_at <= loc[p].req.now)
                      => returned'.status = 400]_vars

\* no two rows of the users table have the same email
EmailUnique == \A u, v \in DOMAIN users : users[u].email = users[v].email => u = v

\* every stored email is lower-cased
EmailLowerCased == \A u \in DOMAIN users : users[u].email = Lower(users[u].email)

\* C22: whatever registrations run, also concurrently, no two users have the
\* same email and every stored email is lower-cased; a registration whose
\* email is in use, when it is validated or when its user is inserted, is
\* answered with 400 and creates no user
C22_EmailUniqueLowerCased ==
    [][/\ EmailUnique' /\ EmailLowerCased'
       /\ (returned'.op = "register" /\ returned'.why \in {"exists", "duplicate"})
             => (returned'.status = 400 /\ users' = users)]_vars

\* the validation failures of a registration
RegisterInvalid == {"exists", "weak_password", "password_mismatch"}

\* C23: with one request at a time, a registration answered with 201 has
\* created one user, with the lower-cased email and email_verified false,
\* one unused EmailVerification token for that user, handed to send_mail,
\* and one refresh token, and its body carries an access token and that
\* refresh token of the user; the user is inserted by one step, the token
\* by one and the refresh token by one, and no other step of the
\* registration writes; a registration that fails validation is answered
\* with 400 and writes nothing
C23_Register ==
    [][/\ (returned'.op = "register" /\ returned'.why \in RegisterInvalid) =>
             /\ returned'.status = 400
             /\ users' = users /\ tokens' = tokens /\ sessions' = sessions
             /\ nextSecret' = nextSecret /\ nextJti' = nextJti
       /\ \A p \in Procs : (pc[p] \in RegisterPcs /\ pc'[p] # pc[p]) =>
             /\ IF pc[p] = "register_save"
                   THEN /\ loc[p].user \notin DOMAIN users
                        /\ DOMAIN users' = DOMAIN users \cup {loc[p].user}
                        /\ \A u \in DOMAIN users : users'[u] = users[u]
                        /\ users'[loc[p].user].email = loc[p].req
                        /\ ~users'[loc[p].user].email_verified
                   ELSE users' = users
             /\ IF pc[p] = "register_token"
                   THEN /\ tokens \subseteq tokens'
                        /\ Cardinality(tokens' \ tokens) = 1
                   ELSE pc[p] # "register_invalidate" => tokens' = tokens
             /\ IF pc[p] = "register_session"
                   THEN /\ sessions \subseteq sessions'
                        /\ Cardinality(sessions' \ sessions) = 1
                   ELSE sessions' = sessions
       /\ (returned'.op = "register" /\ returned'.status = 201) =>
             \E p \in Procs :
                /\ pc[p] = "register_session" /\ pc'[p] = "idle"
                /\ returned'.access = loc[p].user
                /\ returned'.mailed = loc[p].token
                /\ ~users'[loc[p].user].email_verified
                /\ \E r \in tokens' :
                      /\ {t \in tokens' : t.user = loc[p].user} = {r}
                      /\ r.kind = "EmailVerification" /\ r.token = loc[p].token
                      /\ r.used_at = NULL
                /\ \E x \in sessions' :
                      /\ {y \in sessions' : y.user = loc[p].user} = {x}
                      /\ x.jti = returned'.token]_vars

\* C23 witness: a registration has been answered with 201; its user is in
\* the table, unverified, with a live token and a refresh token
C23_Witness ==
    /\ returned.op = "register" /\ returned.status = 201
    /\ \E u \in DOMAIN users \ UserIds :
          /\ returned.access = u /\ ~users[u].email_verified
          /\ \E r \in tokens : r.user = u /\ is_valid(r, now) /\ r.token = returned.mailed
          /\ \E x \in sessions : x.user = u /\ x.jti = returned.token

\* C24: email_verified changes exactly in the step in which verify_email
\* returns True; then it is true for the owner of the token, whose other
\* columns and every other user are as before, and the token is an
\* EmailVerification token marked used; a failed verification changes no
\* user and no token
C24_VerifyEmail ==
    [][/\ (\E u \in UserIds : users'[u].email_verified # users[u].email_verified)
             => (returned'.op = "verify_email" /\ returned'.status = 200)
       /\ (returned'.op = "verify_email" /\ returned'.status = 200) =>
             \E p \in Procs :
                /\ pc[p] = "verify_save_user" /\ pc'[p] = "idle"
                /\ loc[p].token = returned'.token
                /\ users' = [users EXCEPT ![loc[p].user].email_verified = TRUE]
                /\ \A r \in tokens : r.token = returned'.token =>
                      (r.kind = "EmailVerification" /\ r.user = loc[p].user
                       /\ r.used_at # NULL)
       /\ (returned'.op = "verify_email" /\ returned'.status = 400) =>
             /\ Seen(returned') = <<400, "Invalid or expired token.">>
             /\ users' = users /\ tokens' = tokens]_vars

\* C24 witness: a verification has succeeded: the owner of the token is
\* verified, the token is marked used and another active user is not verified
C24_Witness ==
    /\ returned.op = "verify_email" /\ returned.status = 200
    /\ \E r \in tokens :
          /\ r.token = returned.token /\ r.used_at # NULL
          /\ users[r.user].email_verified
          /\ \E u \in UserIds \ {r.user} : users[u].is_active /\ ~users[u].email_verified

\* the request that consumes a token of the kind
ConsumeOp(kind) == IF kind = "PasswordReset" THEN "reset_confirm" ELSE "verify_email"

\* C25: a request that presents the secret of an unused, unexpired token to
\* the consume of the other kind is answered with the failure and changes
\* no token and no user
C25_KindScoped ==
    [][\A r \in tokens :
          (/\ is_valid(r, now)
           /\ returned'.op \in ConsumeOps /\ returned'.op # ConsumeOp(r.kind)
           /\ returned'.token = r.token)
             => /\ Seen(returned') = <<400, "Invalid or expired token.">>
                /\ tokens' = tokens /\ users' = users]_vars

\* C25 witness: reset_password got the secret of a live EmailVerification
\* token and failed; the token is still live
C25_Witness ==
    /\ returned.op = "reset_confirm" /\ returned.why = "wrong_kind"
    /\ \E r \in tokens : /\ r.kind = "EmailVerification" /\ r.token = returned.token
                          /\ is_valid(r, now)
                          /\ users[r.user].password = 0

\* validator p has looked its token up and not yet written used_at
BeforeUsedAtWrite(p) == pc[p] \in {"reset_save_token", "verify_save_token"}

\* the token validator p has looked up was unused then and is marked used
\* now, and no validator has marked it: an issuance for its user and kind
\* has invalidated it since the lookup
InvalidatedSinceLookup(p) ==
    /\ BeforeUsedAtWrite(p)
    /\ \E r \in tokens :
          /\ r.kind = (IF pc[p] = "reset_save_token" THEN "PasswordReset"
                       ELSE "EmailVerification")
          /\ r.token = loc[p].token
          /\ r.used_at # NULL
    /\ consumed[loc[p].token] = 0
    /\ \A q \in Procs \ {p} :
          ~(pc[q] \in {"reset_save_user", "verify_save_user"} /\ loc[q].token = loc[p].token)

\* C26: when an issuance has invalidated the token between the lookup of a
\* validator and its write of used_at, the write does not go through as a
\* consume: the validator answers the failure and changes no user, instead
\* of going on to set the password or email_verified
C26_NoConsumeAfterInvalidation ==
    [][\A p \in Procs :
          (InvalidatedSinceLookup(p) /\ pc'[p] # pc[p]) =>
             /\ pc'[p] = "idle"
             /\ returned'.status = 400
             /\ users' = users]_vars

\* the kind of token the issuance at a position is for
IssueKind(label) ==
    IF label \in {"reset_invalidate", "reset_create"} THEN "PasswordReset"
    ELSE "EmailVerification"

\* C27: a step of an issuance for user u and kind k leaves every token of
\* another user and every token of u of the other kind as it is, row for
\* row, and those that were unused and unexpired are still found by the
\* lookup of their consume
C27_IssuanceFrame ==
    [][\A p \in Procs :
          (pc[p] \in IssuePcs /\ pc'[p] # pc[p]) =>
             \A r \in tokens :
                (r.user # loc[p].user \/ r.kind # IssueKind(pc[p])) =>
                   /\ r \in tokens'
                   /\ is_valid(r, now) => LookupLive(r.kind, r.token, now)' = {r}]_vars

\* C27 witness: a password reset token has just been issued and mailed to a
\* user whose EmailVerification token, issued before, is still live
C27_Witness ==
    /\ returned.op = "reset_request" /\ returned.mailed # NULL
    /\ \E r1, r2 \in tokens :
          /\ r2.token = returned.mailed /\ r2.kind = "PasswordReset"
          /\ r1.user = r2.user /\ r1.kind = "EmailVerification"
          /\ r1.token < r2.token /\ is_valid(r1, now)

\* C28: a logout whose body has no refresh token, the key missing or its
\* value empty, is answered with the success response and changes no row of
\* the refresh token tables
C28_LogoutWithoutRefresh ==
    [][(returned'.op = "logout" /\ returned'.token \in {NULL, EMPTY}) =>
          /\ Seen(returned') = <<200, "Logged out successfully.">>
          /\ blacklist' = blacklist /\ sessions' = sessions]_vars

\* C28 witness: a logout with an empty refresh token has been answered with
\* success while a refresh token is outstanding, and that one is not revoked
C28_Witness ==
    /\ returned.op = "logout" /\ returned.why = "no_token" /\ returned.req = EMPTY
    /\ returned.status = 200
    /\ \E r \in sessions : r.expires_at > now /\ r.jti \notin blacklist

\* C29: no step of a password reset confirm writes a refresh token row, a
\* blacklist row or an EmailVerification token, or changes a column of a
\* user other than the password; and a refresh with a refresh token that is
\* outstanding, unexpired and not blacklisted is answered with an access
\* token, whatever the password of its user is now
C29_ResetKeepsSessions ==
    [][/\ \A p \in Procs :
             (pc[p] \in {"reset_save_token", "reset_save_user"} /\ pc'[p] # pc[p]) =>
                /\ sessions' = sessions /\ blacklist' = blacklist
                /\ {r \in tokens' : r.kind = "EmailVerification"}
                      = {r \in tokens : r.kind = "EmailVerification"}
                /\ \A u \in DOMAIN users :
                      users' [u] = [users[u] EXCEPT !.password = users'[u].password]
       /\ (returned'.op = "reset_confirm") =>
             (sessions' = sessions /\ blacklist' = blacklist)
       /\ \A x \in sessions :
             (/\ returned'.op = "refresh" /\ returned'.token = x.jti
              /\ x.expires_at > now /\ x.jti \notin blacklist)
                => (returned'.status = 200 /\ returned'.access = x.user)]_vars

\* C29 witness: a refresh has been answered with an access token for a user
\* whose password a reset has changed since the login that issued the
\* refresh token (every login carries the old password), and whose
\* EmailVerification token is still live
C29_Witness ==
    /\ returned.op = "refresh" /\ returned.status = 200
    /\ users[returned.access].password = 1
    /\ ~users[returned.access].email_verified
    /\ \E r \in tokens : /\ r.kind = "EmailVerification" /\ r.user = returned.access
                          /\ is_valid(r, now)

\* the table the next DELETE of the cleanup task is on, and the time it
\* compares with: the one the task read when it started
SweepKind == IF sweep.pc = "idle" THEN "PasswordReset" ELSE "EmailVerification"
SweepTime == IF sweep.pc = "idle" THEN now ELSE sweep.now

\* C30: a DELETE of the cleanup task removes from its table exactly the
\* rows with expires_at before the time the task read, used or not, and
\* changes no other row; no row it removes passes validation at that
\* instant, and a row with expires_at equal to the clock is kept and is not
\* found by the lookup of a consume
C30_SweepDeletesOnlyExpired ==
    [][sweep' # sweep =>
          /\ tokens' = {r \in tokens : ~(r.kind = SweepKind /\ r.expires_at < SweepTime)}
          /\ \A r \in tokens \ tokens' :
                r.expires_at < now /\ LookupLive(r.kind, r.token, now) = {}
          /\ \A r \in tokens :
                (r.used_at # NULL /\ r.expires_at >= now) => r \in tokens'
          /\ \A r \in tokens :
                r.expires_at = now =>
                   (r \in tokens' /\ LookupLive(r.kind, r.token, now) = {})]_vars

\* C30 witness: the cleanup task has run through; it has deleted a token
\* and kept an unused one whose expires_at is the clock, which no consume
\* finds
C30_Witness ==
    /\ Quiet
    /\ unswept \ tokens # {}
    /\ \E r \in tokens : /\ r.expires_at = now /\ r.used_at = NULL
                          /\ LookupLive(r.kind, r.token, now) = {}
====
